---- MODULE Spec2Model ----
(***************************************************************************)
(* State-machine model of the trading system's sequential classifier      *)
(* (app/ai_model.py, class AIModel): data preparation and labelling,       *)
(* training, prediction, online update, and versioned save / load; of the  *)
(* two worker threads of app/main.py that share the classifier; of the     *)
(* signal fusion (app/signal_logic.py, class SignalGenerator); and of the  *)
(* support / resistance detection of app/indicators.py.                    *)
(*                                                                         *)
(* Abstractions:                                                           *)
(*  - a data frame is its set of column names and its close column; the    *)
(*    close column stands for the scaled feature matrix;                   *)
(*  - prices are integers, so close * 1.001 is compared exactly as         *)
(*    1000 * next > 1001 * current;                                        *)
(*  - network weights are opaque tokens: 0 is a freshly built network and  *)
(*    every completed fit yields a token never used before;                *)
(*  - class probabilities are integers in tenths (0..10);                  *)
(*  - the model directory is two maps from version number to file content. *)
(***************************************************************************)
EXTENDS Integers, Sequences, FiniteSets, TLC

\* ------------------------------------------------------------------ bounds

\* Longest series (number of candles) handed to the classifier.
MaxLen == 4
\* config['ai']['input_sequence_length'].
SeqLen == 2
\* Number of completed fits (train / online_update) in one behaviour.
MaxFits == 2
\* Highest version number a save may reach.
MaxVersion == 1
\* Longest candle frame handed to detect_support_resistance.
MaxCandles == 5

\* --------------------------------------------------------------- constants

\* Labelling thresholds of prepare_data, per mille: 1.001 and 0.999.
BuyRatio == 1001
SellRatio == 999
PerMille == 1000

\* Close prices around 1000, so that a one-unit step is exactly 0.1 %.
Prices == 998..1002

\* config['ai']['features'].
FeatureColumns == {"close", "rsi"}
\* Column sets a frame may come with: complete, or with the rsi column absent.
ColumnSets == {{"close", "rsi", "volume"}, {"close", "volume"}}

\* ------------------------------------------------------------------- state

VARIABLES
    model,          \* self.model: the weights token of the in-memory network
    scaler,         \* self.scaler: [scale_, min_], <<>> for an attribute not set
    model_version,  \* self.model_version
    modelFiles,     \* app/models/lstm_model_v{n}.h5: version -> <<weights>> or <<>>
    scalerFiles,    \* app/models/scaler_v{n}.npy: version -> scale_ or <<>>
    saved,          \* history: version -> the in-memory state at its last save
    nextW,          \* history: the next unused weights token
    ret,            \* the last call: operation, arguments, outcome
    pc,             \* worker thread -> its position inside the call it is running
    local,          \* worker thread -> the locals of that call
    market_data_queue,  \* self.market_data_queue: the items not yet taken
    signal_queue,   \* self.signal_queue: the signals not yet taken
    produced,       \* history: the number of items market_data_worker has put
    seen,           \* history: consumer -> the items it has taken, by number
    orders,         \* history: the requests place_order was called with
    consumed,       \* history: the signals trade_execution_worker has taken
    trade_result    \* the local trade_result of trade_execution_worker

aiVars == <<model, scaler, model_version, modelFiles, scalerFiles, saved, nextW>>
pipeVars ==
    <<market_data_queue, signal_queue, produced, seen, orders, consumed, trade_result>>
workerVars == <<pc, local, pipeVars>>
vars ==
    <<model, scaler, model_version, modelFiles, scalerFiles, saved, nextW, ret,
      pc, local, pipeVars>>

\* ----------------------------------------------------------------- helpers

NoFile == <<>>
NoAttr == <<>>
FreshWeights == 0
Versions == 0..MaxVersion

BUY == <<1, 0, 0>>
SELL == <<0, 1, 0>>
HOLD == <<0, 0, 1>>
Signals == <<"BUY", "SELL", "HOLD">>

\* Every close column of at most MaxLen candles.
Closes == UNION {[1..n -> Prices] : n \in 0..MaxLen}

\* Every frame of the data-preparation specification.
DFs == [columns : ColumnSets, close : Closes]
FlatClose(n) == [i \in 1..n |-> 1000]
RisingClose(n) == [i \in 1..n |-> IF i = n THEN 1002 ELSE 1000]
FallingClose(n) == [i \in 1..n |-> IF i = n THEN 998 ELSE 1000]

\* The frames of the call specification: series of every length that are
\* flat or end 0.2 % higher or lower, and a frame with a feature column
\* absent.
CallDFs ==
    {[columns |-> FeatureColumns, close |-> FlatClose(n)] : n \in 0..MaxLen}
        \cup {[columns |-> FeatureColumns, close |-> RisingClose(n)] : n \in 1..MaxLen}
        \cup {[columns |-> FeatureColumns, close |-> FallingClose(n)] : n \in 1..MaxLen}
        \cup {[columns |-> {"close", "volume"}, close |-> RisingClose(MaxLen)]}

\* The frames of the life-cycle specification: two series that fit different
\* scalers, one too short to give an example, and one with a feature column
\* absent.
LifeDFs ==
    {[columns |-> FeatureColumns, close |-> FlatClose(MaxLen)],
     [columns |-> FeatureColumns, close |-> RisingClose(MaxLen)],
     [columns |-> FeatureColumns, close |-> FlatClose(SeqLen)],
     [columns |-> {"close", "volume"}, close |-> RisingClose(MaxLen)]}

SeqMin(s) == CHOOSE x \in {s[i] : i \in 1..Len(s)} : \A j \in 1..Len(s) : x <= s[j]
SeqMax(s) == CHOOSE x \in {s[i] : i \in 1..Len(s)} : \A j \in 1..Len(s) : x >= s[j]

\* MinMaxScaler() as constructed: no fitted attribute.
UnfitScaler == [scale_ |-> NoAttr, min_ |-> NoAttr]

\* data_range_, with a zero range replaced by 1 as the scaler does.
DataRange(c) ==
    LET lo == SeqMin(c)
        hi == SeqMax(c)
    IN  IF hi = lo THEN 1 ELSE hi - lo

\* MinMaxScaler.fit on a non-empty column, feature_range (0, 1):
\* scale_ = 1 / range and min_ = -data_min * scale_, kept as <<num, den>>.
ScalerFit(c) ==
    LET r == DataRange(c) IN [scale_ |-> <<1, r>>, min_ |-> <<0 - SeqMin(c), r>>]

\* transform: x * scale_ + min_, as <<numerator, denominator>> per row.
ScaledFeatures(c) ==
    LET lo == SeqMin(c)
        r == DataRange(c)
    IN  [i \in 1..Len(c) |-> <<c[i] - lo, r>>]

\* set(self.feature_columns) - set(df.columns)
MissingFeatures(d) == FeatureColumns \ d.columns

\* The target of one window: the next candle's direction.
(* A faulty variant of Target: the BUY comparison made non-strict. *)
TargetNonStrict(next_close, current_close) ==
    IF next_close * PerMille >= current_close * BuyRatio THEN BUY
    ELSE IF next_close * PerMille < current_close * SellRatio THEN SELL
    ELSE HOLD

Target(next_close, current_close) ==
    IF next_close * PerMille > current_close * BuyRatio THEN BUY
    ELSE IF next_close * PerMille < current_close * SellRatio THEN SELL
    ELSE HOLD

\* range(len(scaled_features) - self.sequence_length), as a count.
NumWindows(c) == IF Len(c) > SeqLen THEN Len(c) - SeqLen ELSE 0

\* X: window i (0-based in the code) is rows i .. i+sequence_length-1.
Windows(c) ==
    LET scaled_features == ScaledFeatures(c)
    IN  [k \in 1..NumWindows(c) |-> SubSeq(scaled_features, k, k + SeqLen - 1)]

\* y: next_close = close.iloc[i + L], current_close = close.iloc[i + L - 1].
Targets(c) ==
    [k \in 1..NumWindows(c) |-> Target(c[k + SeqLen], c[k + SeqLen - 1])]

\* prepare_data on a frame that has every feature column: the exception it
\* raises ("none" if it returns), the arrays it returns and the scaler it
\* leaves behind.  fit_transform refits the scaler on every call; on a frame
\* with no rows it resets the scaler and raises ValueError (a minimum of one
\* sample is required).
PrepareColumns(c) ==
    IF Len(c) = 0
    THEN [exc |-> "ValueError", X |-> <<>>, y |-> <<>>, scaler |-> UnfitScaler]
    ELSE [exc |-> "none", X |-> Windows(c), y |-> Targets(c), scaler |-> ScalerFit(c)]

\* PrepareColumns tabulated over the close columns of the call and the
\* life-cycle frames, so that it is computed once for each of them.
Tabulated == [c \in {d.close : d \in CallDFs \cup LifeDFs} |-> PrepareColumns(c)]

Prepared(c) == IF c \in DOMAIN Tabulated THEN Tabulated[c] ELSE PrepareColumns(c)

(* A faulty variant of PrepareData: the check for missing features left out. *)
PrepareDataUnchecked(d) == Prepared(d.close)

\* prepare_data: a frame with a feature column absent raises ValueError
\* before the scaler is touched.
PrepareData(d) ==
    IF MissingFeatures(d) # {}
    THEN [exc |-> "ValueError", X |-> <<>>, y |-> <<>>, scaler |-> scaler]
    ELSE Prepared(d.close)

NoPrediction == [signal |-> "none", confidence |-> 0, probabilities |-> <<0, 0, 0>>]

Ret(op, arg, d, exc, X, y, out, metrics) ==
    [op |-> op, arg |-> arg, df |-> d, exc |-> exc, X |-> X, y |-> y,
     out |-> out, metrics |-> metrics]

NoFrame == [columns |-> {}, close |-> <<>>]

\* The two worker threads of TradingSystem that share self.ai_model.
Threads == {"signal_thread", "model_thread"}

\* The locals of a call in progress: the frame it was handed, the scaler
\* parameters its transform read and the scaled features it computed.
NoLocals == [df |-> NoFrame, used |-> UnfitScaler, scaled |-> <<>>]

\* ----------------------------------------------------------------- actions

\* AIModel.prepare_data(df), called directly.
PrepareDataCall(d) ==
    LET p == PrepareData(d) IN
    /\ scaler' = p.scaler
    /\ ret' = Ret("prepare_data", 0, d, p.exc, p.X, p.y, NoPrediction, "none")
    /\ UNCHANGED workerVars
    /\ UNCHANGED <<model, model_version, modelFiles, scalerFiles, saved, nextW>>

\* model.predict on one window: the network is a deterministic function of
\* its weights and its input; this table stands for it.
PredTable ==
    << <<7, 2, 1>>, <<2, 7, 1>>, <<1, 2, 7>>, <<4, 4, 2>>, <<8, 1, 1>>, <<3, 3, 4>> >>

WindowSum(w) == IF Len(w) = 0 THEN 0 ELSE w[1][1] + w[Len(w)][1]

NetOutput(weights, window) ==
    PredTable[((weights + WindowSum(window)) % Len(PredTable)) + 1]

\* max(prediction)
MaxProb(p) == CHOOSE x \in {p[1], p[2], p[3]} : \A i \in 1..3 : x >= p[i]

\* np.argmax(prediction): the first index holding the maximum (1-based here).
ArgMax(p) == CHOOSE i \in 1..3 : p[i] = MaxProb(p) /\ \A j \in 1..(i-1) : p[j] < p[i]

\* The record predict returns from its except branch.
NeutralPrediction ==
    [signal |-> "HOLD", confidence |-> 0, probabilities |-> <<0, 0, 10>>]

\* The record predict builds from the network's output.
PredictionRecord(p) ==
    [signal |-> Signals[ArgMax(p)], confidence |-> MaxProb(p), probabilities |-> p]

\* save_model's steps on in-memory weights m and scaler s: the version is
\* incremented first, then the weights file is written, then scale_.
\* model.save can fail (ioModel: whether the write succeeds); reading
\* scale_ of a scaler never fitted raises AttributeError.
(* A faulty variant of SaveOutcome: the files are written under the current
   number, which is not incremented. *)
SaveOutcomeNoIncrement(m, s, ioModel) ==
    LET v == model_version IN
    IF ~ioModel
    THEN [exc |-> "OSError", version |-> v, mf |-> modelFiles, sf |-> scalerFiles,
          sv |-> saved]
    ELSE IF s.scale_ = NoAttr
    THEN [exc |-> "AttributeError", version |-> v,
          mf |-> [modelFiles EXCEPT ![v] = <<m>>], sf |-> scalerFiles, sv |-> saved]
    ELSE [exc |-> "none", version |-> v,
          mf |-> [modelFiles EXCEPT ![v] = <<m>>],
          sf |-> [scalerFiles EXCEPT ![v] = s.scale_],
          sv |-> [saved EXCEPT ![v] = <<[model |-> m, scaler |-> s]>>]]

SaveOutcome(m, s, ioModel) ==
    LET v == model_version + 1 IN
    IF ~ioModel
    THEN [exc |-> "OSError", version |-> v, mf |-> modelFiles, sf |-> scalerFiles,
          sv |-> saved]
    ELSE IF s.scale_ = NoAttr
    THEN [exc |-> "AttributeError", version |-> v,
          mf |-> [modelFiles EXCEPT ![v] = <<m>>], sf |-> scalerFiles, sv |-> saved]
    ELSE [exc |-> "none", version |-> v,
          mf |-> [modelFiles EXCEPT ![v] = <<m>>],
          sf |-> [scalerFiles EXCEPT ![v] = s.scale_],
          sv |-> [saved EXCEPT ![v] = <<[model |-> m, scaler |-> s]>>]]

\* AIModel.save_model(), called directly.
SaveModel(ioModel) ==
    LET o == SaveOutcome(model, scaler, ioModel) IN
    /\ model_version < MaxVersion
    /\ model_version' = o.version
    /\ modelFiles' = o.mf
    /\ scalerFiles' = o.sf
    /\ saved' = o.sv
    /\ ret' = Ret("save_model", 0, NoFrame, o.exc, <<>>, <<>>, NoPrediction, "none")
    /\ UNCHANGED workerVars
    /\ UNCHANGED <<model, scaler, nextW>>

\* Whether model.fit is reached and completes: prepare_data returned at
\* least one example and the fit itself did not fail.
(* A faulty variant of FitCompletes: the check for zero examples left out. *)
FitCompletesUnchecked(p, fitOk) == p.exc = "none" /\ fitOk

FitCompletes(p, fitOk) == p.exc = "none" /\ Len(p.X) > 0 /\ fitOk

\* AIModel.train(df, save_model): every exception is logged and re-raised.
\* fitOk: whether model.fit completes.
Train(d, save, fitOk, ioModel) ==
    LET p == PrepareData(d)
        o == SaveOutcome(nextW, p.scaler, ioModel)
    IN
    /\ FitCompletes(p, fitOk) => nextW <= MaxFits
    /\ (FitCompletes(p, fitOk) /\ save) => model_version < MaxVersion
    /\ scaler' = p.scaler
    /\ UNCHANGED workerVars
    /\ IF ~FitCompletes(p, fitOk)
       THEN /\ ret' = Ret("train", save, d,
                          IF p.exc # "none" \/ Len(p.X) = 0 THEN "ValueError"
                          ELSE "FitError",
                          <<>>, <<>>, NoPrediction, "none")
            /\ UNCHANGED <<model, model_version, modelFiles, scalerFiles, saved, nextW>>
       ELSE /\ model' = nextW
            /\ nextW' = nextW + 1
            /\ IF save
               THEN /\ model_version' = o.version
                    /\ modelFiles' = o.mf
                    /\ scalerFiles' = o.sf
                    /\ saved' = o.sv
                    /\ ret' = Ret("train", save, d, o.exc, <<>>, <<>>, NoPrediction,
                                  IF o.exc = "none" THEN "metrics" ELSE "none")
               ELSE /\ ret' = Ret("train", save, d, "none", <<>>, <<>>, NoPrediction,
                                  "metrics")
                    /\ UNCHANGED <<model_version, modelFiles, scalerFiles, saved>>

\* What predict does with the outcome of prepare_data: any exception, its
\* own "Insufficient data" included, ends in the except branch.
(* A faulty variant of PredictResult: the except branch re-raises, as train's
   does. *)
PredictResultReraises(p, inferOk) ==
    IF p.exc # "none" \/ Len(p.X) = 0
    THEN [exc |-> "ValueError", out |-> NoPrediction]
    ELSE IF ~inferOk
    THEN [exc |-> "InferenceError", out |-> NoPrediction]
    ELSE [exc |-> "none", out |-> PredictionRecord(NetOutput(model, p.X[Len(p.X)]))]

PredictResult(p, inferOk) ==
    IF p.exc # "none" \/ Len(p.X) = 0 \/ ~inferOk
    THEN [exc |-> "none", out |-> NeutralPrediction]
    ELSE [exc |-> "none", out |-> PredictionRecord(NetOutput(model, p.X[Len(p.X)]))]

\* AIModel.predict(df).  inferOk: whether model.predict completes.
Predict(d, inferOk) ==
    LET p == PrepareData(d)
        r == PredictResult(p, inferOk)
    IN
    /\ scaler' = p.scaler
    /\ ret' = Ret("predict", inferOk, d, r.exc, <<>>, <<>>, r.out, "none")
    /\ UNCHANGED workerVars
    /\ UNCHANGED <<model, model_version, modelFiles, scalerFiles, saved, nextW>>

\* What online_update returns: the metrics of one pass, or {None, None}
\* from its except branch.
(* A faulty variant of OnlineResult: the except branch re-raises, as train's
   does. *)
OnlineResultReraises(p, fitOk) ==
    IF p.exc # "none" \/ Len(p.X) = 0 THEN [exc |-> "ValueError", metrics |-> "none"]
    ELSE IF ~fitOk THEN [exc |-> "FitError", metrics |-> "none"]
    ELSE [exc |-> "none", metrics |-> "metrics"]

OnlineResult(p, fitOk) ==
    IF p.exc # "none" \/ Len(p.X) = 0 \/ ~fitOk
    THEN [exc |-> "none", metrics |-> "None"]
    ELSE [exc |-> "none", metrics |-> "metrics"]

\* AIModel.online_update(new_data): one epoch on every prepared example.
OnlineUpdate(d, fitOk) ==
    LET p == PrepareData(d)
        r == OnlineResult(p, fitOk)
    IN
    /\ FitCompletes(p, fitOk) => nextW <= MaxFits
    /\ scaler' = p.scaler
    /\ ret' = Ret("online_update", fitOk, d, r.exc, <<>>, <<>>, NoPrediction, r.metrics)
    /\ UNCHANGED workerVars
    /\ IF r.metrics = "metrics"
       THEN model' = nextW /\ nextW' = nextW + 1
       ELSE UNCHANGED <<model, nextW>>
    /\ UNCHANGED <<model_version, modelFiles, scalerFiles, saved>>

\* AIModel.load_specific_version(version): the weights are assigned before
\* the scaler file is read, and the version after both.
LoadSpecificVersion(version) ==
    /\ ret' = Ret("load_specific_version", version, NoFrame,
                  IF modelFiles[version] = NoFile \/ scalerFiles[version] = NoFile
                  THEN "FileNotFoundError" ELSE "none",
                  <<>>, <<>>, NoPrediction, "none")
    /\ IF modelFiles[version] = NoFile
       THEN UNCHANGED <<model, scaler, model_version>>
       ELSE /\ model' = modelFiles[version][1]
            /\ IF scalerFiles[version] = NoFile
               THEN UNCHANGED <<scaler, model_version>>
               ELSE /\ scaler' = [scaler EXCEPT !.scale_ = scalerFiles[version]]
                    /\ model_version' = version
    /\ UNCHANGED <<modelFiles, scalerFiles, saved, nextW>>
    /\ UNCHANGED workerVars

\* AIModel.__init__ + initialize_model, run again over the model directory
\* as it now is (a restart): model_version starts at 0 and the path tried
\* is lstm_model_v0.h5; otherwise a new network is built.
Construct ==
    /\ model_version' = 0
    /\ scaler' = UnfitScaler
    /\ model' = IF modelFiles[0] # NoFile THEN modelFiles[0][1] ELSE FreshWeights
    /\ ret' = Ret("init", 0, NoFrame, "none", <<>>, <<>>, NoPrediction, "none")
    /\ UNCHANGED <<modelFiles, scalerFiles, saved, nextW>>
    /\ UNCHANGED workerVars

\* ------------------------------------------------------------ specification

\* AIModel(config) constructed over an empty model directory.
\* setup_queues and the workers before their first pass: both queues are
\* empty, nothing was taken or ordered, trade_result is not bound.
QueuesEmpty ==
    /\ market_data_queue = <<>>
    /\ signal_queue = <<>>
    /\ produced = 0
    /\ seen = [signal_generation_worker |-> {}, model_update_worker |-> {}]
    /\ orders = <<>>
    /\ consumed = <<>>
    /\ trade_result = <<>>

Init ==
    /\ model = FreshWeights
    /\ scaler = UnfitScaler
    /\ model_version = 0
    /\ modelFiles = [v \in Versions |-> NoFile]
    /\ scalerFiles = [v \in Versions |-> NoFile]
    /\ saved = [v \in Versions |-> <<>>]
    /\ nextW = 1
    /\ ret = Ret("init", 0, NoFrame, "none", <<>>, <<>>, NoPrediction, "none")
    /\ pc = [t \in Threads |-> "idle"]
    /\ local = [t \in Threads |-> NoLocals]
    /\ QueuesEmpty

\* Data preparation alone: a newly constructed AIModel is handed one frame,
\* any frame of DFs, and prepares it.
InitPrepare ==
    /\ model = FreshWeights
    /\ scaler = UnfitScaler
    /\ model_version = 0
    /\ modelFiles = [v \in Versions |-> NoFile]
    /\ scalerFiles = [v \in Versions |-> NoFile]
    /\ saved = [v \in Versions |-> <<>>]
    /\ nextW = 1
    /\ pc = [t \in Threads |-> "idle"]
    /\ local = [t \in Threads |-> NoLocals]
    /\ QueuesEmpty
    /\ \E d \in DFs :
          ret = Ret("input", 0, d, "none", <<>>, <<>>, NoPrediction, "none")

PrepareInput ==
    /\ ret.op = "input"
    /\ PrepareDataCall(ret.df)

NextPrepare == PrepareInput

SpecPrepare == InitPrepare /\ [][NextPrepare]_vars

\* The calls that prepare data, on one classifier that is never saved.
NextCalls ==
    \/ \E d \in CallDFs : PrepareDataCall(d)
    \/ \E d \in CallDFs, fitOk \in BOOLEAN : Train(d, FALSE, fitOk, TRUE)
    \/ \E d \in CallDFs, inferOk \in BOOLEAN : Predict(d, inferOk)
    \/ \E d \in CallDFs, fitOk \in BOOLEAN : OnlineUpdate(d, fitOk)

SpecCalls == Init /\ [][NextCalls]_vars

\* The life cycle of one classifier and its model directory.  prepare_data
\* and predict change nothing but the scaler, as a failed online_update
\* does, so they add no state to this specification and are left to
\* SpecCalls.
Next ==
    \/ \E d \in LifeDFs, save, fitOk, ioModel \in BOOLEAN :
          Train(d, save, fitOk, ioModel)
    \/ \E d \in LifeDFs, fitOk \in BOOLEAN : OnlineUpdate(d, fitOk)
    \/ \E ioModel \in BOOLEAN : SaveModel(ioModel)
    \/ \E version \in Versions : LoadSpecificVersion(version)
    \/ Construct

Spec == Init /\ [][Next]_vars

\* ------------------------------------------------------- worker threads

\* signal_generation_worker calls ai_model.predict and model_update_worker
\* calls ai_model.online_update, each on its own thread and on the same
\* AIModel, with no lock.  Here the two calls run in steps that interleave:
\* the scaler's fit and its transform (fit_transform is fit followed by
\* transform on self.scaler), then the network's predict or fit.

\* The frames the workers take from the market data queue; the market data
\* worker never queues an empty one.
ThreadDFs ==
    {[columns |-> FeatureColumns, close |-> FlatClose(MaxLen)],
     [columns |-> FeatureColumns, close |-> RisingClose(MaxLen)],
     [columns |-> FeatureColumns, close |-> FlatClose(SeqLen)],
     [columns |-> {"close", "volume"}, close |-> RisingClose(MaxLen)]}

\* MinMaxScaler.transform with parameters s: x * scale_ + min_.
TransformWith(s, c) ==
    [i \in 1..Len(c) |-> <<c[i] * s.scale_[1] + s.min_[1], s.scale_[2]>>]

\* What a call that ends in its except branch returns.
FailedCall(t, d) ==
    IF t = "signal_thread"
    THEN Ret("predict", TRUE, d, "none", <<>>, <<>>, NeutralPrediction, "none")
    ELSE Ret("online_update", TRUE, d, "none", <<>>, <<>>, NoPrediction, "None")

\* Thread t takes frame d and enters predict or online_update, which enters
\* prepare_data; a missing feature column ends the call at once.
BeginCall(t, d) ==
    /\ pc[t] = "idle"
    /\ local' = [local EXCEPT ![t] = [NoLocals EXCEPT !.df = d]]
    /\ IF MissingFeatures(d) # {}
       THEN ret' = FailedCall(t, d) /\ UNCHANGED pc
       ELSE pc' = [pc EXCEPT ![t] = "fit"] /\ UNCHANGED ret
    /\ UNCHANGED <<aiVars, pipeVars>>

\* First half of self.scaler.fit_transform(features): the shared scaler is
\* fitted to the thread's frame.
FitScaler(t) ==
    /\ pc[t] = "fit"
    /\ scaler' = ScalerFit(local[t].df.close)
    /\ pc' = [pc EXCEPT ![t] = "transform"]
    /\ UNCHANGED <<model, model_version, modelFiles, scalerFiles, saved, nextW, ret, local>>
    /\ UNCHANGED pipeVars

\* Second half: the thread's features are transformed with the parameters
\* the shared scaler holds now.
TransformFeatures(t) ==
    /\ pc[t] = "transform"
    /\ local' = [local EXCEPT ![t].used = scaler,
                              ![t].scaled = TransformWith(scaler, local[t].df.close)]
    /\ pc' = [pc EXCEPT ![t] = "model"]
    /\ UNCHANGED <<aiVars, ret, pipeVars>>

\* X[-1:] of the windows cut from scaled features sf.
LastWindow(sf) == SubSeq(sf, Len(sf) - SeqLen, Len(sf) - 1)

\* The rest of predict on the signal thread: the length check and
\* self.model.predict on the last window.
PredictInfer(inferOk) ==
    LET l == local["signal_thread"] IN
    /\ pc["signal_thread"] = "model"
    /\ ret' = IF NumWindows(l.df.close) = 0 \/ ~inferOk
              THEN FailedCall("signal_thread", l.df)
              ELSE Ret("predict", TRUE, l.df, "none", <<>>, <<>>,
                       PredictionRecord(NetOutput(model, LastWindow(l.scaled))), "none")
    /\ pc' = [pc EXCEPT !["signal_thread"] = "idle"]
    /\ UNCHANGED <<aiVars, local, pipeVars>>

\* The rest of online_update on the model thread: the length check and one
\* epoch of self.model.fit.
OnlineFit(fitOk) ==
    LET l == local["model_thread"]
        done == NumWindows(l.df.close) > 0 /\ fitOk
    IN
    /\ pc["model_thread"] = "model"
    /\ done => nextW <= MaxFits
    /\ IF done
       THEN /\ model' = nextW
            /\ nextW' = nextW + 1
            /\ ret' = Ret("online_update", TRUE, l.df, "none", <<>>, <<>>,
                          NoPrediction, "metrics")
       ELSE /\ ret' = FailedCall("model_thread", l.df)
            /\ UNCHANGED <<model, nextW>>
    /\ pc' = [pc EXCEPT !["model_thread"] = "idle"]
    /\ UNCHANGED <<scaler, model_version, modelFiles, scalerFiles, saved, local>>
    /\ UNCHANGED pipeVars

NextThreads ==
    \/ \E t \in Threads, d \in ThreadDFs : BeginCall(t, d)
    \/ \E t \in Threads : FitScaler(t)
    \/ \E t \in Threads : TransformFeatures(t)
    \/ \E inferOk \in BOOLEAN : PredictInfer(inferOk)
    \/ \E fitOk \in BOOLEAN : OnlineFit(fitOk)

SpecThreads == Init /\ [][NextThreads]_vars

\* ---------------------------------------------------------- signal fusion

\* app/signal_logic.py, class SignalGenerator.  Scores, confidences and
\* probabilities are integers in millionths, prices are integers, and the
\* arithmetic is exact.  An optional value (None in the code) is <<>>, a
\* present one is <<x>>.

ScoreOne == 1000000
\* self.min_confidence = 0.7; also the probability above which the AI score
\* is boosted.
MinConfidence == 700000
\* The score above which a signal is STRONG.
StrongScore == 800000
\* self.risk_reward_ratio = 2.0
RiskReward == 2

None == <<>>
Truthy(opt) == opt # None /\ opt[1] # 0

Abs(x) == IF x < 0 THEN 0 - x ELSE x
Min(a, b) == IF a <= b THEN a ELSE b
Max(a, b) == IF a >= b THEN a ELSE b
\* max(min(x, 1.0), 0.0)
Clamp01(x) == Max(Min(x, ScoreOne), 0)

SetMax(S) == CHOOSE x \in S : \A y \in S : y <= x
SetMin(S) == CHOOSE x \in S : \A y \in S : x <= y
Elems(q) == {q[i] : i \in 1..Len(q)}

\* _evaluate_ai_signal: a prediction without the keys read ends in the
\* except branch.
(* A faulty variant of EvaluateAiSignal: the boost applied to every
   prediction and the result not capped. *)
EvaluateAiSignalBoostAll(ai_prediction) ==
    IF ~({"confidence", "probabilities"} \subseteq DOMAIN ai_prediction)
    THEN 0
    ELSE (ai_prediction.confidence * 12) \div 10

EvaluateAiSignal(ai_prediction) ==
    IF ~({"confidence", "probabilities"} \subseteq DOMAIN ai_prediction)
    THEN 0
    ELSE LET probabilities == ai_prediction.probabilities
             signal_strength ==
                 IF probabilities.buy > MinConfidence \/ probabilities.sell > MinConfidence
                 THEN (ai_prediction.confidence * 12) \div 10
                 ELSE ai_prediction.confidence
         IN  Min(signal_strength, ScoreOne)

\* _evaluate_trend: df.iloc[-1] of a frame with no rows raises, which the
\* except branch turns into 0.0.
EvaluateTrend(df) ==
    IF df.rows = 0 THEN 0
    ELSE LET latest == df.latest
             ma == IF {"sma_20", "sma_50"} \subseteq df.columns
                   THEN IF latest.sma_20 > latest.sma_50 THEN 300000
                        ELSE IF latest.sma_20 < latest.sma_50 THEN 0 - 300000
                        ELSE 0
                   ELSE 0
             trend_score ==
                 IF "adx" \in df.columns
                 THEN IF latest.adx > 25 THEN (ma * 15) \div 10
                      ELSE IF latest.adx < 20 THEN (ma * 5) \div 10
                      ELSE ma
                 ELSE ma
         IN  Clamp01(Abs(trend_score))

\* _evaluate_momentum
EvaluateMomentum(df) ==
    IF df.rows = 0 THEN 0
    ELSE LET latest == df.latest
             rsi == IF "rsi" \in df.columns
                    THEN IF latest.rsi > 70 THEN 0 - 300000
                         ELSE IF latest.rsi < 30 THEN 300000
                         ELSE 0
                    ELSE 0
             macd == IF {"macd_line", "macd_signal"} \subseteq df.columns
                     THEN IF latest.macd_line > latest.macd_signal THEN 300000
                          ELSE 0 - 300000
                     ELSE 0
             stoch == IF {"stoch_k", "stoch_d"} \subseteq df.columns
                      THEN IF latest.stoch_k > latest.stoch_d THEN 200000
                           ELSE 0 - 200000
                      ELSE 0
         IN  Clamp01(Abs(rsi + macd + stoch))

\* max([s for s in levels if s < current_price], default=None)
NearestBelow(levels, current_price) ==
    LET below == {s \in Elems(levels) : s < current_price}
    IN  IF below = {} THEN None ELSE <<SetMax(below)>>

\* min([r for r in levels if r > current_price], default=None)
NearestAbove(levels, current_price) ==
    LET above == {r \in Elems(levels) : r > current_price}
    IN  IF above = {} THEN None ELSE <<SetMin(above)>>

\* _evaluate_support_resistance, for a positive current price: a proximity
\* d / current_price < 0.01 is compared as 100 * d < current_price.
EvaluateSupportResistance(current_price, support_resistance) ==
    LET nearest_support == NearestBelow(support_resistance.support, current_price)
        nearest_resistance == NearestAbove(support_resistance.resistance, current_price)
        up == IF Truthy(nearest_support)
              THEN LET d == current_price - nearest_support[1]
                   IN  IF 100 * d < current_price THEN 500000
                       ELSE IF 100 * d < 2 * current_price THEN 300000
                       ELSE 0
              ELSE 0
        down == IF Truthy(nearest_resistance)
                THEN LET d == nearest_resistance[1] - current_price
                     IN  IF 100 * d < current_price THEN 500000
                         ELSE IF 100 * d < 2 * current_price THEN 300000
                         ELSE 0
                ELSE 0
    IN  IF support_resistance.support = <<>> /\ support_resistance.resistance = <<>>
        THEN 0
        ELSE Clamp01(Abs(up - down))

\* _calculate_overall_score: weights 0.4, 0.25, 0.2, 0.15, as per cent.
(* A faulty variant of CalculateOverallScore: the scores summed without
   their weights. *)
CalculateOverallScoreUnweighted(metrics) ==
    Clamp01(metrics.ai_score + metrics.trend_score + metrics.momentum_score
              + metrics.support_resistance_score)

(* A faulty variant of CalculateOverallScore: the AI score subtracted. *)
CalculateOverallScoreAiSubtracted(metrics) ==
    Clamp01((25 * metrics.trend_score + 20 * metrics.momentum_score
               + 15 * metrics.support_resistance_score
               - 40 * metrics.ai_score) \div 100)

CalculateOverallScore(metrics) ==
    Clamp01((40 * metrics.ai_score + 25 * metrics.trend_score
               + 20 * metrics.momentum_score
               + 15 * metrics.support_resistance_score) \div 100)

\* _determine_signal_type
(* A faulty variant of DetermineSignalType: a score equal to the threshold
   is NEUTRAL too. *)
DetermineSignalTypeInclusive(overall_score) ==
    IF overall_score <= MinConfidence THEN "NEUTRAL"
    ELSE IF overall_score > StrongScore
    THEN IF overall_score > 0 THEN "STRONG_BUY" ELSE "STRONG_SELL"
    ELSE IF overall_score > 0 THEN "BUY" ELSE "SELL"

(* A faulty variant of DetermineSignalType: the polarity is tested
   against the confidence threshold instead of zero. *)
DetermineSignalTypeThresholdPolarity(overall_score) ==
    IF overall_score < MinConfidence THEN "NEUTRAL"
    ELSE IF overall_score > StrongScore
    THEN IF overall_score > MinConfidence THEN "STRONG_BUY" ELSE "STRONG_SELL"
    ELSE IF overall_score > MinConfidence THEN "BUY" ELSE "SELL"

DetermineSignalType(overall_score) ==
    IF overall_score < MinConfidence THEN "NEUTRAL"
    ELSE IF overall_score > StrongScore
    THEN IF overall_score > 0 THEN "STRONG_BUY" ELSE "STRONG_SELL"
    ELSE IF overall_score > 0 THEN "BUY" ELSE "SELL"

\* The levels _calculate_trade_levels returns; the ratio reward / risk is
\* kept as <<reward, risk>>, and the 2.0 it falls back to as <<2, 1>>.
TradeLevels(entry, stop_loss, take_profit, atr) ==
    LET risk == IF Truthy(stop_loss) THEN Abs(entry - stop_loss[1]) ELSE atr
        reward == IF Truthy(take_profit) THEN Abs(entry - take_profit[1])
                  ELSE risk * RiskReward
    IN  [entry |-> <<entry>>, stop_loss |-> stop_loss, take_profit |-> take_profit,
         risk_reward_ratio |-> IF risk > 0 THEN <<reward, risk>> ELSE <<RiskReward, 1>>]

\* _calculate_trade_levels; latest.get('atr', current_price * 0.001).
(* A faulty variant of CalculateTradeLevels: the stop of a buy is the
   greatest support level, whether below the price or not. *)
CalculateTradeLevelsAnySupport(signal_type, current_price, df, support_resistance) ==
    IF df.rows = 0
    THEN [entry |-> <<current_price>>, stop_loss |-> None, take_profit |-> None,
          risk_reward_ratio |-> <<RiskReward, 1>>]
    ELSE
    LET atr == IF "atr" \in df.columns THEN df.latest.atr ELSE current_price \div 1000
        levels == Elems(support_resistance.support)
        stop_loss == IF levels # {} THEN SetMax(levels) ELSE current_price - 2 * atr
    IN  TradeLevels(current_price, <<stop_loss>>,
                    <<current_price + (current_price - stop_loss) * RiskReward>>, atr)

CalculateTradeLevels(signal_type, current_price, df, support_resistance) ==
    IF df.rows = 0
    THEN [entry |-> <<current_price>>, stop_loss |-> None, take_profit |-> None,
          risk_reward_ratio |-> <<RiskReward, 1>>]
    ELSE
    LET atr == IF "atr" \in df.columns THEN df.latest.atr ELSE current_price \div 1000
    IN  IF signal_type \in {"BUY", "STRONG_BUY"}
        THEN LET nearby_support ==
                     NearestBelow(support_resistance.support, current_price)
                 stop_loss == IF Truthy(nearby_support) THEN nearby_support[1]
                              ELSE current_price - 2 * atr
             IN  TradeLevels(current_price, <<stop_loss>>,
                     <<current_price + (current_price - stop_loss) * RiskReward>>, atr)
        ELSE IF signal_type \in {"SELL", "STRONG_SELL"}
        THEN LET nearby_resistance ==
                     NearestAbove(support_resistance.resistance, current_price)
                 stop_loss == IF Truthy(nearby_resistance) THEN nearby_resistance[1]
                              ELSE current_price + 2 * atr
             IN  TradeLevels(current_price, <<stop_loss>>,
                     <<current_price - (stop_loss - current_price) * RiskReward>>, atr)
        ELSE TradeLevels(current_price, None, None, atr)

NoMetrics ==
    [ai_score |-> 0, trend_score |-> 0, momentum_score |-> 0,
     support_resistance_score |-> 0]

\* _create_neutral_signal
CreateNeutralSignal ==
    [signal_type |-> "NEUTRAL", confidence |-> 0, entry_price |-> None,
     stop_loss |-> None, take_profit |-> None, risk_reward_ratio |-> None,
     metrics |-> NoMetrics]

\* The scores generate_signal computes before it classifies.
SignalMetrics(a) ==
    [ai_score |-> EvaluateAiSignal(a.ai_prediction),
     trend_score |-> EvaluateTrend(a.technical_data),
     momentum_score |-> EvaluateMomentum(a.technical_data),
     support_resistance_score |->
         EvaluateSupportResistance(a.price_data.close, a.support_resistance)]

\* generate_signal(ai_prediction, technical_data, price_data,
\* support_resistance): price_data['close'] of a dict without that key
\* raises KeyError, which the outer except turns into the neutral signal.
(* A faulty variant of GenerateSignal: no early return for a NEUTRAL
   classification, so the levels and the score are reported with it. *)
GenerateSignalNoEarlyReturn(a) ==
    IF "close" \notin DOMAIN a.price_data
    THEN CreateNeutralSignal
    ELSE LET current_price == a.price_data.close
             signal_metrics == SignalMetrics(a)
             overall_score == CalculateOverallScore(signal_metrics)
             signal_type == DetermineSignalType(overall_score)
             levels == CalculateTradeLevels(signal_type, current_price,
                                            a.technical_data, a.support_resistance)
         IN  [signal_type |-> signal_type, confidence |-> overall_score,
              entry_price |-> levels.entry, stop_loss |-> levels.stop_loss,
              take_profit |-> levels.take_profit,
              risk_reward_ratio |-> levels.risk_reward_ratio,
              metrics |-> signal_metrics]

GenerateSignal(a) ==
    IF "close" \notin DOMAIN a.price_data
    THEN CreateNeutralSignal
    ELSE LET current_price == a.price_data.close
             signal_metrics == SignalMetrics(a)
             overall_score == CalculateOverallScore(signal_metrics)
             signal_type == DetermineSignalType(overall_score)
             levels == CalculateTradeLevels(signal_type, current_price,
                                            a.technical_data, a.support_resistance)
         IN  IF signal_type = "NEUTRAL"
             THEN CreateNeutralSignal
             ELSE [signal_type |-> signal_type, confidence |-> overall_score,
                   entry_price |-> levels.entry, stop_loss |-> levels.stop_loss,
                   take_profit |-> levels.take_profit,
                   risk_reward_ratio |-> levels.risk_reward_ratio,
                   metrics |-> signal_metrics]

\* ------------------------------------------------ support and resistance

\* app/indicators.py, TechnicalIndicators.detect_support_resistance.  A
\* frame is its set of columns, its high and low columns and its latest
\* close; positions are counted from 0 as in the code.

\* num_touches, the default of the parameter.
NumTouches == 2

At(x, i) == x[i + 1]

\* series.rolling(window, center=True).max() / .min() at position i: the
\* window ends (window - 1) // 2 positions after i.  Inside the loop's range
\* the window always lies within the series.
RollingWindow(x, i, window) ==
    LET last == i + ((window - 1) \div 2)
    IN  {At(x, j) : j \in (last - window + 1)..last}

\* The touches counted around position i: values within 0.2 % of the level.
Touches(x, i, window, level) ==
    Cardinality({j \in Max(0, i - window)..(Min(Len(x), i + window) - 1) :
                    1000 * Abs(At(x, j) - level) <= 2 * level})

\* What one pass of the loop appends to levels: the high, then the low.
LevelsAt(df, i, window, num_touches) ==
    (IF /\ SetMax(RollingWindow(df.high, i, window)) = At(df.high, i)
        /\ Touches(df.high, i, window, At(df.high, i)) >= num_touches
     THEN <<At(df.high, i)>> ELSE <<>>)
    \o
    (IF /\ SetMin(RollingWindow(df.low, i, window)) = At(df.low, i)
        /\ Touches(df.low, i, window, At(df.low, i)) >= num_touches
     THEN <<At(df.low, i)>> ELSE <<>>)

\* levels after the passes for range(window, i).
RECURSIVE LevelsBefore(_, _, _, _)
LevelsBefore(df, i, window, num_touches) ==
    IF i <= window THEN <<>>
    ELSE LevelsBefore(df, i - 1, window, num_touches)
             \o LevelsAt(df, i - 1, window, num_touches)

\* levels when the loop over range(window, len(df) - window) has ended.
PotentialLevels(df, window, num_touches) ==
    LevelsBefore(df, Max(window, Len(df.high) - window), window, num_touches)

\* sorted(list(set(levels)))
RECURSIVE SortedSet(_)
SortedSet(S) ==
    IF S = {} THEN <<>> ELSE <<SetMin(S)>> \o SortedSet(S \ {SetMin(S)})

\* [level for level in levels if level < price] and its mirror.
LevelsBelow(levels, price) == SelectSeq(levels, LAMBDA l : l < price)
LevelsAbove(levels, price) == SelectSeq(levels, LAMBDA l : l > price)

\* detect_support_resistance(df, window, num_touches): a missing column
\* raises KeyError and a frame with no rows raises IndexError at
\* df['close'].iloc[-1]; the except branch returns two empty lists.
(* A faulty variant of DetectSupportResistance: the levels are split as
   they were appended, neither deduplicated nor sorted. *)
DetectSupportResistanceRaw(df, window, num_touches) ==
    IF ~({"high", "low", "close"} \subseteq df.columns) \/ Len(df.high) = 0
    THEN [support |-> <<>>, resistance |-> <<>>]
    ELSE LET levels == PotentialLevels(df, window, num_touches)
         IN  [support |-> LevelsBelow(levels, df.close),
              resistance |-> LevelsAbove(levels, df.close)]

DetectSupportResistance(df, window, num_touches) ==
    IF ~({"high", "low", "close"} \subseteq df.columns) \/ Len(df.high) = 0
    THEN [support |-> <<>>, resistance |-> <<>>]
    ELSE LET levels == SortedSet(Elems(PotentialLevels(df, window, num_touches)))
             current_price == df.close
         IN  [support |-> LevelsBelow(levels, current_price),
              resistance |-> LevelsAbove(levels, current_price)]

\* The candles of the frames: high and low.
CandleShapes == {<<1010, 990>>, <<1011, 1000>>, <<1020, 1000>>, <<1000, 985>>}

CandleSeqs == UNION {[1..n -> CandleShapes] : n \in 0..MaxCandles}

\* Every frame of at most MaxCandles candles, its latest close at a level,
\* between levels or outside them; and the frames with the high column
\* absent.
CandleFrames ==
    {[columns |-> cols,
      high |-> [i \in 1..Len(q) |-> q[i][1]],
      low |-> [i \in 1..Len(q) |-> q[i][2]],
      close |-> c] :
        q \in CandleSeqs, c \in {990, 1000, 1005}, cols \in {{"high", "low", "close"}}}
    \cup
    {[columns |-> {"low", "close"},
      high |-> [i \in 1..MaxCandles |-> 1010],
      low |-> [i \in 1..MaxCandles |-> 990],
      close |-> 1000]}

\* The window sizes called with (the default of the parameter is 20).
WindowSizes == {1, 2}

DetectInputs == [df : CandleFrames, window : WindowSizes]

\* The inputs of the signal fusion specification.

\* ---------------------------------------------------------------------
\* TechnicalIndicators.calculate_all.  A frame is the set of its column
\* names.  Each add_* routine builds its indicator from the columns it
\* reads and then assigns its columns, all inside one try block whose
\* except branch logs and returns the frame as it is.
\* ---------------------------------------------------------------------

Indicator(name, reads, adds) == [name |-> name, reads |-> reads, adds |-> adds]

\* The routines in the order calculate_all calls them.
Indicators ==
    <<Indicator("add_moving_averages", {"close"},
                {"sma_9", "ema_9", "sma_20", "ema_20", "sma_50", "ema_50",
                 "sma_200", "ema_200"}),
      Indicator("add_rsi", {"close"}, {"rsi"}),
      Indicator("add_macd", {"close"}, {"macd_line", "macd_signal", "macd_histogram"}),
      Indicator("add_bollinger_bands", {"close"},
                {"bb_upper", "bb_middle", "bb_lower", "bb_width"}),
      Indicator("add_adx", {"high", "low", "close"}, {"adx", "adx_pos", "adx_neg"}),
      Indicator("add_atr", {"high", "low", "close"}, {"atr"}),
      Indicator("add_stochastic", {"high", "low", "close"}, {"stoch_k", "stoch_d"}),
      Indicator("add_vwap", {"high", "low", "close", "tick_volume"}, {"vwap"})>>

IndicatorNames == {Indicators[k].name : k \in DOMAIN Indicators}

\* The routine raises inside its try block: a column it reads is missing
\* (KeyError while the arguments of the indicator are evaluated) or the
\* indicator library raises.  Both happen before the first assignment.
IndicatorRaises(df, indicator, raises) ==
    ~(indicator.reads \subseteq df) \/ indicator.name \in raises

\* One add_* call: the frame with the routine's columns, or the frame as
\* it was.
AddIndicator(df, indicator, raises) ==
    IF IndicatorRaises(df, indicator, raises) THEN df ELSE df \cup indicator.adds

\* The frame after the first n routines.
RECURSIVE AfterIndicators(_, _, _)
AfterIndicators(df, raises, n) ==
    IF n = 0 THEN df
    ELSE AddIndicator(AfterIndicators(df, raises, n - 1), Indicators[n], raises)

(* A faulty variant of CalculateAll: the routines have no try block of
   their own, so the first one that raises ends the call in calculate_all's
   except branch with the frame reached so far. *)
RECURSIVE AfterIndicatorsAborting(_, _, _)
AfterIndicatorsAborting(df, raises, n) ==
    IF n = 0 THEN df
    ELSE IF \E k \in 1..(n - 1) :
                IndicatorRaises(AfterIndicatorsAborting(df, raises, k - 1),
                                Indicators[k], raises)
    THEN AfterIndicatorsAborting(df, raises, n - 1)
    ELSE AddIndicator(AfterIndicatorsAborting(df, raises, n - 1), Indicators[n], raises)

CalculateAllAborting(df, raises) ==
    [returned |-> AfterIndicatorsAborting(df, raises, Len(Indicators)),
     input |-> df,
     exc |-> "none"]

\* calculate_all(df): the routines work on df.copy(), so the frame the
\* caller passed keeps its columns; returned is the copy after the last
\* routine.
CalculateAll(df, raises) ==
    [returned |-> AfterIndicators(df, raises, Len(Indicators)),
     input |-> df,
     exc |-> "none"]

\* The candle columns a frame is called with, any of them possibly
\* missing, and the routines in which the library raises.
CandleColumns == {"high", "low", "close", "tick_volume"}

CalculateInputs == [df : SUBSET CandleColumns, raises : SUBSET IndicatorNames]

\* ---------------------------------------------------------------------
\* MT5Connector: construction and destruction.  The terminal is the
\* environment: whether mt5.initialize() and mt5.login() succeed and the
\* trade mode of the account.
\* ---------------------------------------------------------------------

RealAccount == 0

Mt5Environments == [initialize : BOOLEAN, login : BOOLEAN, trade_mode : {0, 1, 2}]

\* _initialize_mt5: its return value, which is also what it leaves in
\* self.connected when it returns True (the attribute is not assigned on
\* the failing paths).
InitializeMt5(env) ==
    env.initialize /\ env.login /\ env.trade_mode = RealAccount

\* __init__: _initialize_mt5() is called first and self.connected = False
\* is assigned after it.
MT5ConnectorInit(env) ==
    [initialized |-> InitializeMt5(env), connected |-> FALSE]

\* __del__: whether mt5.shutdown() is called.
MT5ConnectorDel(self) == self.connected

\* A connector constructed in the environment and then destroyed.
MT5ConnectorLife(env) ==
    LET self == MT5ConnectorInit(env)
    IN  [initialized |-> self.initialized,
         connected |-> self.connected,
         shutdown |-> MT5ConnectorDel(self)]

Prediction(signal, confidence, buy, sell, hold) ==
    [signal |-> signal, confidence |-> confidence,
     probabilities |-> [buy |-> buy, sell |-> sell, hold |-> hold]]

\* AI predictions as AIModel.predict returns them, its neutral record among
\* them, and one without the keys the fusion reads.
HoldPrediction == Prediction("HOLD", 900000, 50000, 50000, 900000)

AiPredictions ==
    {Prediction("BUY", 1000000, 1000000, 0, 0),
     Prediction("BUY", 950000, 950000, 30000, 20000),
     Prediction("BUY", 750000, 750000, 150000, 100000),
     Prediction("BUY", 700000, 700000, 200000, 100000),
     Prediction("SELL", 800000, 100000, 800000, 100000),
     HoldPrediction,
     Prediction("HOLD", 0, 0, 0, 1000000),
     [signal |-> "HOLD"]}

TechColumns ==
    {"sma_20", "sma_50", "adx", "rsi", "macd_line", "macd_signal",
     "stoch_k", "stoch_d", "atr"}

\* The latest row of the indicator frame: sma_50, macd_signal and stoch_d
\* are fixed and the others are read against them.
TechRows ==
    [sma_20 : {99, 100, 101}, sma_50 : {100}, adx : {15, 25, 30},
     rsi : {25, 55, 75}, macd_line : {0, 1}, macd_signal : {0},
     stoch_k : {50, 60}, stoch_d : {50}, atr : {0, 5}]

\* Indicator frames: every row with every column, with the stochastic
\* columns absent, with adx and atr absent; and a frame with no rows.
EmptyTech == [rows |-> 0, columns |-> TechColumns, latest |-> <<>>]

TechFrames ==
    [rows : {1},
     columns : {TechColumns, TechColumns \ {"stoch_k", "stoch_d"},
                TechColumns \ {"adx", "atr"}},
     latest : TechRows]
        \cup {EmptyTech}

\* Level sets as detect_support_resistance returns them for a close of 1000.
LevelSets ==
    {[support |-> <<>>, resistance |-> <<>>],
     [support |-> <<985, 995>>, resistance |-> <<1005>>],
     [support |-> <<995>>, resistance |-> <<>>],
     [support |-> <<>>, resistance |-> <<1005>>],
     [support |-> <<975>>, resistance |-> <<1030>>],
     [support |-> <<985>>, resistance |-> <<1015>>]}

\* Level sets around a price that is not the close they were split by.
TradeLevelSets ==
    LevelSets \cup {[support |-> <<995, 1000, 1010>>, resistance |-> <<990, 1000, 1005>>]}

\* price_data with the close, and the dict get_symbol_info returns, which
\* is what signal_generation_worker passes and has no close.
ClosePrice == [close |-> 1000]
SymbolInfo == [bid |-> 1000, ask |-> 1001]

GenerateInputs ==
    [ai_prediction : AiPredictions, technical_data : TechFrames,
     price_data : {ClosePrice}, support_resistance : LevelSets]
        \cup [ai_prediction : AiPredictions, technical_data : {EmptyTech},
              price_data : {SymbolInfo}, support_resistance : LevelSets]

ScoreGrid == {0, 250000, 500000, 750000, 1000000}

OverallInputs ==
    [ai_score : ScoreGrid, trend_score : ScoreGrid, momentum_score : ScoreGrid,
     support_resistance_score : ScoreGrid]

OverallScores ==
    {0, 500000, 699999, 700000, 700001, 800000, 800001, 1000000}

TradeInputs ==
    [signal_type : {"BUY", "STRONG_BUY", "SELL", "STRONG_SELL"},
     current_price : {1000, 2000},
     technical_data :
         {f \in TechFrames :
             f.rows = 0 \/ (/\ f.latest.sma_20 = 100 /\ f.latest.adx = 25
                            /\ f.latest.rsi = 55 /\ f.latest.macd_line = 0
                            /\ f.latest.stoch_k = 50)},
     support_resistance : TradeLevelSets]

Call(op, call, args, out) == [op |-> op, call |-> call, args |-> args, out |-> out]

\* A SignalGenerator about to be called once: the call and its arguments.
InitSignal ==
    /\ model = FreshWeights
    /\ scaler = UnfitScaler
    /\ model_version = 0
    /\ modelFiles = [v \in Versions |-> NoFile]
    /\ scalerFiles = [v \in Versions |-> NoFile]
    /\ saved = [v \in Versions |-> <<>>]
    /\ nextW = 1
    /\ pc = [t \in Threads |-> "idle"]
    /\ local = [t \in Threads |-> NoLocals]
    /\ QueuesEmpty
    /\ \/ \E a \in GenerateInputs : ret = Call("input", "generate_signal", a, <<>>)
       \/ \E a \in OverallInputs : ret = Call("input", "_calculate_overall_score", a, <<>>)
       \/ \E a \in OverallScores : ret = Call("input", "_determine_signal_type", a, <<>>)
       \/ \E a \in TradeInputs : ret = Call("input", "_calculate_trade_levels", a, <<>>)
       \/ \E a \in DetectInputs : ret = Call("input", "detect_support_resistance", a, <<>>)
       \/ \E a \in CalculateInputs : ret = Call("input", "calculate_all", a, <<>>)
       \/ \E a \in Mt5Environments : ret = Call("input", "MT5Connector", a, <<>>)

GenerateSignalCall ==
    /\ ret.op = "input" /\ ret.call = "generate_signal"
    /\ ret' = Call("generate_signal", ret.call, ret.args, GenerateSignal(ret.args))
    /\ UNCHANGED <<aiVars, workerVars>>

CalculateOverallScoreCall ==
    /\ ret.op = "input" /\ ret.call = "_calculate_overall_score"
    /\ ret' = Call("_calculate_overall_score", ret.call, ret.args,
                   CalculateOverallScore(ret.args))
    /\ UNCHANGED <<aiVars, workerVars>>

DetermineSignalTypeCall ==
    /\ ret.op = "input" /\ ret.call = "_determine_signal_type"
    /\ ret' = Call("_determine_signal_type", ret.call, ret.args,
                   DetermineSignalType(ret.args))
    /\ UNCHANGED <<aiVars, workerVars>>

CalculateTradeLevelsCall ==
    /\ ret.op = "input" /\ ret.call = "_calculate_trade_levels"
    /\ ret' = Call("_calculate_trade_levels", ret.call, ret.args,
                   CalculateTradeLevels(ret.args.signal_type, ret.args.current_price,
                                        ret.args.technical_data,
                                        ret.args.support_resistance))
    /\ UNCHANGED <<aiVars, workerVars>>

DetectSupportResistanceCall ==
    /\ ret.op = "input" /\ ret.call = "detect_support_resistance"
    /\ ret' = Call("detect_support_resistance", ret.call, ret.args,
                   DetectSupportResistance(ret.args.df, ret.args.window, NumTouches))
    /\ UNCHANGED <<aiVars, workerVars>>

CalculateAllCall ==
    /\ ret.op = "input" /\ ret.call = "calculate_all"
    /\ ret' = Call("calculate_all", ret.call, ret.args,
                   CalculateAll(ret.args.df, ret.args.raises))
    /\ UNCHANGED <<aiVars, workerVars>>

MT5ConnectorCall ==
    /\ ret.op = "input" /\ ret.call = "MT5Connector"
    /\ ret' = Call("MT5Connector", ret.call, ret.args, MT5ConnectorLife(ret.args))
    /\ UNCHANGED <<aiVars, workerVars>>

NextSignal ==
    \/ MT5ConnectorCall
    \/ DetectSupportResistanceCall
    \/ CalculateAllCall
    \/ GenerateSignalCall
    \/ CalculateOverallScoreCall
    \/ DetermineSignalTypeCall
    \/ CalculateTradeLevelsCall

SpecSignal == InitSignal /\ [][NextSignal]_vars

\* ---------------------------------------------------------- worker loops
\* app/main.py, TradingSystem: market_data_worker puts items on
\* market_data_queue, signal_generation_worker and model_update_worker take
\* from it, signal_generation_worker puts signals on signal_queue and
\* trade_execution_worker takes from it.  An action is one pass of a
\* worker's loop body; the steps of predict and online_update inside a pass
\* are those of SpecThreads.  A get on an empty queue times out and the
\* loop continues, which changes nothing.  The database, the log and the
\* GUI tables are outside the model.

\* How many items market_data_worker puts in one behaviour.
MaxItems == 3
\* How many signals trade_execution_worker finds on its queue.
MaxSignals == 2

\* config['trading']['allowed_symbols'] and the GUI's timeframe.
Symbol == "EURUSD"
Timeframe == "M5"

EmptyDict == <<>>

\* The frames get_candles and calculate_all deliver, as the classifier
\* reads them; NoFrame is the empty frame.
PipelineDFs ==
    {[columns |-> FeatureColumns, close |-> FlatClose(MaxLen)],
     [columns |-> FeatureColumns, close |-> RisingClose(MaxLen)]}

\* The dict market_data_worker puts; id numbers the items in the order
\* they were put and is not a key of the dict.
MarketData(id, data) ==
    [id |-> id, symbol |-> Symbol, timeframe |-> Timeframe, data |-> data]

\* One pass for one symbol.  candles.empty skips the symbol; saveOk is
\* whether save_candles returns, its exception ends the pass in the except
\* branch before the put.  Queue() has no maxsize, so put never waits.
MarketDataWorker(candles, saveOk) ==
    LET put == Len(candles.close) > 0 /\ saveOk IN
    /\ produced < MaxItems
    /\ IF put
       THEN /\ market_data_queue' =
                   Append(market_data_queue, MarketData(produced + 1, candles))
            /\ produced' = produced + 1
       ELSE UNCHANGED <<market_data_queue, produced>>
    /\ ret' = Call("market_data_worker", "market_data_worker",
                   [candles |-> candles, saveOk |-> saveOk], [put |-> put])
    /\ UNCHANGED <<aiVars, pc, local, signal_queue, seen, orders, consumed, trade_result>>

\* The frame as the fusion reads it; the indicator values of its latest
\* row are not part of the classifier's view of the frame.
TechView(d) == [rows |-> Len(d.close), columns |-> d.columns, latest |-> <<>>]

\* The keys of a signal dict: those of the record and the two the model
\* leaves out of it.
SignalKeys(signal) == DOMAIN signal \cup {"timestamp", "metadata"}

\* The keys save_signal subscripts.
SaveSignalKeys == {"timestamp", "symbol", "signal_type", "timeframe", "price", "confidence"}

\* Database.save_signal: a missing key raises KeyError while the row is
\* built; dbOk is whether sqlite accepts the row.  Every exception is
\* logged and raised again.
SaveSignal(signal_data, dbOk) ==
    IF ~(SaveSignalKeys \subseteq SignalKeys(signal_data)) THEN "KeyError"
    ELSE IF ~dbOk THEN "sqlite3.Error"
    ELSE "none"

\* The body of signal_generation_worker after the get, for an enabled AI:
\* predict, get_symbol_info (infoOk: the symbol is found; the dict has no
\* close either way), detect_support_resistance, generate_signal and
\* save_signal.  generate_signal raises at price_data['close'] before it
\* reads the frame or the levels.  put: whether signal_queue.put is reached.
SignalPass(market_data, inferOk, infoOk, dbOk) ==
    LET p == PrepareData(market_data.data)
        prediction == PredictResult(p, inferOk).out
        current_price == IF infoOk THEN SymbolInfo ELSE EmptyDict
        signal == GenerateSignal([ai_prediction |-> prediction,
                                  technical_data |-> TechView(market_data.data),
                                  price_data |-> current_price,
                                  support_resistance |->
                                      [support |-> <<>>, resistance |-> <<>>]])
        exc == SaveSignal(signal, dbOk)
    IN  [scaler |-> p.scaler, signal |-> signal, exc |-> exc, put |-> exc = "none"]

\* One pass of signal_generation_worker that finds an item.
SignalGenerationWorker(ai_enabled, inferOk, infoOk, dbOk) ==
    /\ market_data_queue # <<>>
    /\ LET market_data == Head(market_data_queue)
           r == SignalPass(market_data, inferOk, infoOk, dbOk)
       IN  /\ market_data_queue' = Tail(market_data_queue)
           /\ seen' = [seen EXCEPT !.signal_generation_worker = @ \cup {market_data.id}]
           /\ IF ai_enabled
              THEN /\ scaler' = r.scaler
                   /\ signal_queue' = IF r.put THEN Append(signal_queue, r.signal)
                                      ELSE signal_queue
                   /\ ret' = Call("signal_generation_worker", "signal_generation_worker",
                                  [market_data |-> market_data, ai_enabled |-> TRUE],
                                  [signal |-> <<r.signal>>, exc |-> r.exc, put |-> r.put])
              ELSE /\ UNCHANGED <<scaler, signal_queue>>
                   /\ ret' = Call("signal_generation_worker", "signal_generation_worker",
                                  [market_data |-> market_data, ai_enabled |-> FALSE],
                                  [signal |-> None, exc |-> "none", put |-> FALSE])
    /\ UNCHANGED <<model, model_version, modelFiles, scalerFiles, saved, nextW>>
    /\ UNCHANGED <<pc, local, produced, orders, consumed, trade_result>>

\* One pass of model_update_worker that finds an item: online_update on
\* its frame; the metrics it returns are logged.
ModelUpdateWorker(fitOk) ==
    /\ market_data_queue # <<>>
    /\ LET market_data == Head(market_data_queue)
           p == PrepareData(market_data.data)
           update_result == OnlineResult(p, fitOk)
       IN  /\ FitCompletes(p, fitOk) => nextW <= MaxFits
           /\ market_data_queue' = Tail(market_data_queue)
           /\ seen' = [seen EXCEPT !.model_update_worker = @ \cup {market_data.id}]
           /\ scaler' = p.scaler
           /\ IF update_result.metrics = "metrics"
              THEN model' = nextW /\ nextW' = nextW + 1
              ELSE UNCHANGED <<model, nextW>>
           /\ ret' = Call("model_update_worker", "model_update_worker",
                          [market_data |-> market_data], update_result)
    /\ UNCHANGED <<model_version, modelFiles, scalerFiles, saved>>
    /\ UNCHANGED <<pc, local, signal_queue, produced, orders, consumed, trade_result>>

NextPipeline ==
    \/ \E candles \in PipelineDFs \cup {NoFrame}, saveOk \in BOOLEAN :
          MarketDataWorker(candles, saveOk)
    \/ \E ai_enabled, inferOk, infoOk, dbOk \in BOOLEAN :
          SignalGenerationWorker(ai_enabled, inferOk, infoOk, dbOk)
    \/ \E fitOk \in BOOLEAN : ModelUpdateWorker(fitOk)

SpecPipeline == Init /\ [][NextPipeline]_vars

\* ------------------------------------------------- trade_execution_worker

\* signal['confidence'] < 0.8, in millionths.
TradeConfidence == 800000

\* A signal with trade levels, as generate_signal builds it.
SignalRecord(signal_type, confidence) ==
    [signal_type |-> signal_type, confidence |-> confidence,
     entry_price |-> <<1000>>, stop_loss |-> <<995>>, take_profit |-> <<1010>>,
     risk_reward_ratio |-> <<10, 5>>, metrics |-> NoMetrics]

WithSymbol(signal) == signal @@ [symbol |-> Symbol]

\* The signals the worker is run on: the two kinds generate_signal
\* returns, which have no symbol key, and signals of every type with a
\* symbol key and a confidence just below, at and above the threshold.
QueuedSignals ==
    {CreateNeutralSignal, SignalRecord("BUY", 747500),
     SignalRecord("STRONG_BUY", 900000)}
        \cup {WithSymbol(SignalRecord(t, c)) :
                 t \in {"NEUTRAL", "BUY", "STRONG_BUY", "SELL", "STRONG_SELL"},
                 c \in {TradeConfidence - 1, TradeConfidence, 900000}}

\* place_order(symbol, order_type, volume, price, sl, tp) as it is called;
\* the volume, from calculate_position_size, is left out.
OrderRequest(signal, order_type) ==
    [symbol |-> signal.symbol, order_type |-> order_type,
     price |-> signal.entry_price, sl |-> signal.stop_loss, tp |-> signal.take_profit]

\* The local trade_result: <<>> while it is not bound, <<r>> once bound to
\* r, where r is EmptyDict (place_order failed) or <<the trade>>.
Bound(r) == <<r>>

(* A faulty variant of TradePass: the confidence of the signal is not
   tested. *)
TradePassAnyConfidence(signal, result, auto_trading, accountOk, orderOk) ==
    LET skip == [order |-> None, trade_result |-> result, exc |-> "none", saved |-> None]
        order_type == IF signal.signal_type \in {"BUY", "STRONG_BUY"} THEN "BUY"
                      ELSE "SELL"
    IN  IF ~auto_trading THEN skip
        ELSE IF ~accountOk THEN [skip EXCEPT !.exc = "KeyError"]
        ELSE IF "symbol" \notin DOMAIN signal THEN [skip EXCEPT !.exc = "KeyError"]
        ELSE LET request == OrderRequest(signal, order_type)
                 trade == IF orderOk THEN <<request>> ELSE EmptyDict
             IN  [order |-> <<request>>, trade_result |-> Bound(trade),
                  exc |-> "none", saved |-> trade]

\* The body of trade_execution_worker after the get.  accountOk: the risk
\* input parses and get_account_info returns the balance; orderOk:
\* place_order returns the trade and not {}.  order is the request
\* place_order was called with, saved the trade handed to save_trade.  For
\* a type in neither list trade_result keeps the value of an earlier pass,
\* or is not bound, which raises UnboundLocalError.
TradePass(signal, result, auto_trading, accountOk, orderOk) ==
    LET skip == [order |-> None, trade_result |-> result, exc |-> "none", saved |-> None]
    IN  IF ~auto_trading THEN skip
        ELSE IF signal.confidence < TradeConfidence THEN skip
        ELSE IF ~accountOk THEN [skip EXCEPT !.exc = "KeyError"]
        ELSE IF signal.signal_type \in {"BUY", "STRONG_BUY", "SELL", "STRONG_SELL"}
        THEN IF "symbol" \notin DOMAIN signal THEN [skip EXCEPT !.exc = "KeyError"]
             ELSE LET request ==
                          OrderRequest(signal,
                                       IF signal.signal_type \in {"BUY", "STRONG_BUY"}
                                       THEN "BUY" ELSE "SELL")
                      trade == IF orderOk THEN <<request>> ELSE EmptyDict
                  IN  [order |-> <<request>>, trade_result |-> Bound(trade),
                       exc |-> "none", saved |-> trade]
        ELSE IF result = <<>> THEN [skip EXCEPT !.exc = "UnboundLocalError"]
        ELSE [skip EXCEPT !.saved = result[1]]

\* One pass of trade_execution_worker that finds a signal.
TradeExecutionWorker(auto_trading, accountOk, orderOk) ==
    /\ signal_queue # <<>>
    /\ LET signal == Head(signal_queue)
           r == TradePass(signal, trade_result, auto_trading, accountOk, orderOk)
       IN  /\ signal_queue' = Tail(signal_queue)
           /\ consumed' = Append(consumed, signal)
           /\ orders' = orders \o r.order
           /\ trade_result' = r.trade_result
           /\ ret' = Call("trade_execution_worker", "trade_execution_worker",
                          [signal |-> signal, auto_trading |-> auto_trading], r)
    /\ UNCHANGED <<aiVars, pc, local, market_data_queue, produced, seen>>

\* The worker alone, with signals waiting on its queue.
InitTrade ==
    /\ model = FreshWeights
    /\ scaler = UnfitScaler
    /\ model_version = 0
    /\ modelFiles = [v \in Versions |-> NoFile]
    /\ scalerFiles = [v \in Versions |-> NoFile]
    /\ saved = [v \in Versions |-> <<>>]
    /\ nextW = 1
    /\ pc = [t \in Threads |-> "idle"]
    /\ local = [t \in Threads |-> NoLocals]
    /\ market_data_queue = <<>>
    /\ produced = 0
    /\ seen = [signal_generation_worker |-> {}, model_update_worker |-> {}]
    /\ orders = <<>>
    /\ consumed = <<>>
    /\ trade_result = <<>>
    /\ signal_queue \in UNION {[1..n -> QueuedSignals] : n \in 1..MaxSignals}
    /\ ret = Call("init", "trade_execution_worker", <<>>, <<>>)

NextTrade ==
    \E auto_trading, accountOk, orderOk \in BOOLEAN :
        TradeExecutionWorker(auto_trading, accountOk, orderOk)

SpecTrade == InitTrade /\ [][NextTrade]_vars

\* ------------------------------------------------------------------ claims

OneHot(t) == t \in {BUY, SELL, HOLD}

\* C1: prepare_data on a series of n rows that has every feature column
\* returns max(0, n - sequence_length) windows and as many labels, each
\* label one-hot over three classes, and for n below sequence_length + 1 it
\* returns empty arrays and does not raise.
C1_PrepareCount ==
    (ret.op = "prepare_data" /\ FeatureColumns \subseteq ret.df.columns) =>
        /\ ret.exc = "none"
        /\ Len(ret.X) = Max(0, Len(ret.df.close) - SeqLen)
        /\ Len(ret.y) = Len(ret.X)
        /\ \A k \in 1..Len(ret.y) : OneHot(ret.y[k])

C3_PredictNeverRaises ==
    ret.op = "predict" =>
        /\ ret.exc = "none"
        /\ IF \/ Len(ret.df.close) < SeqLen + 1
              \/ ~(FeatureColumns \subseteq ret.df.columns)
              \/ ~ret.arg
           THEN /\ ret.out.signal = "HOLD"
                /\ ret.out.confidence = 0
                /\ ret.out.probabilities = <<0, 0, 10>>
           ELSE /\ ret.out.probabilities \in {PredTable[i] : i \in 1..Len(PredTable)}
                /\ \E i \in 1..3 :
                       /\ ret.out.signal = Signals[i]
                       /\ ret.out.confidence = ret.out.probabilities[i]
                       /\ \A j \in 1..3 :
                              ret.out.probabilities[j] <= ret.out.probabilities[i]

\* predict on a series too short to give a window answered neutral.
C3_Witness ==
    /\ ret.op = "predict"
    /\ FeatureColumns \subseteq ret.df.columns
    /\ Len(ret.df.close) = SeqLen
    /\ ret.arg
    /\ ret.out = NeutralPrediction

\* C4 as stated: with a feature column absent, every operation that
\* prepares data (prepare_data, train, predict, online_update) surfaces the
\* failure to its caller as an error.
C4_MissingAlwaysSurfaced ==
    (/\ ret.op \in {"prepare_data", "train", "predict", "online_update"}
     /\ ~(FeatureColumns \subseteq ret.df.columns)) =>
        ret.exc = "ValueError"

\* C4 as amended: with a feature column absent, prepare_data and train
\* raise the error (a ValueError) and return nothing; predict catches it
\* and returns the neutral record; online_update catches it and returns
\* {None, None}; none of them changes the weights.
C4_MissingSurfacedByPrepareAndTrain ==
    (/\ ret.op \in {"prepare_data", "train", "predict", "online_update"}
     /\ ~(FeatureColumns \subseteq ret.df.columns)) =>
        /\ ret.op \in {"prepare_data", "train"} =>
               ret.exc = "ValueError" /\ ret.metrics = "none" /\ ret.X = <<>>
        /\ ret.op = "predict" => ret.exc = "none" /\ ret.out = NeutralPrediction
        /\ ret.op = "online_update" => ret.exc = "none" /\ ret.metrics = "None"

\* train was handed a frame with a feature column absent.
C4_Witness ==
    /\ ret.op = "train"
    /\ ~(FeatureColumns \subseteq ret.df.columns)
    /\ ret.exc = "ValueError"

\* C5: load_specific_version is atomic: a load that raises leaves the
\* in-memory model, scaler and model_version as they were, and a load that
\* succeeds sets all three to version v.
C5_LoadAtomic ==
    [][ret'.op = "load_specific_version" =>
          IF ret'.exc # "none"
          THEN UNCHANGED <<model, scaler, model_version>>
          ELSE /\ model' = modelFiles[ret'.arg][1]
               /\ scaler'.scale_ = scalerFiles[ret'.arg]
               /\ model_version' = ret'.arg]_vars

\* C6: a save never overwrites the stored artifact of a version saved
\* earlier.
C6_VersionsRetained ==
    [][\A v \in Versions :
          saved[v] # <<>> =>
              modelFiles'[v] = modelFiles[v] /\ scalerFiles'[v] = scalerFiles[v]]_vars

\* A call that ran save_model and returned.
SaveSucceeded(r) ==
    /\ r.exc = "none"
    /\ r.op = "save_model" \/ (r.op = "train" /\ r.arg)

\* C7: a successful save_model, direct or from train(save_model=True),
\* increases model_version by exactly 1 and writes the weights and the
\* scaler state under the new number; train(save_model=False) leaves
\* model_version and the stored artifacts unchanged.
C7_SaveIncrementsVersion ==
    [][/\ SaveSucceeded(ret') =>
              /\ model_version' = model_version + 1
              /\ modelFiles'[model_version'] = <<model'>>
              /\ scalerFiles'[model_version'] = scaler'.scale_
              /\ \A v \in Versions \ {model_version'} :
                     modelFiles'[v] = modelFiles[v] /\ scalerFiles'[v] = scalerFiles[v]
       /\ (ret'.op = "train" /\ ~ret'.arg) =>
              UNCHANGED <<model_version, modelFiles, scalerFiles>>]_vars

\* train(save_model=True) returned and its weights are stored as version 1.
C7_Witness ==
    /\ ret.op = "train"
    /\ ret.arg
    /\ ret.exc = "none"
    /\ model_version = 1
    /\ modelFiles[1] = <<model>>
    /\ scalerFiles[1] # NoFile

SavedVersions == {v \in Versions : saved[v] # <<>>}

\* C8: a newly constructed AIModel holds the highest version in storage:
\* after versions 1..k were saved, model_version = k and the weights are
\* those saved under k.
C8_ConstructLoadsLatest ==
    (ret.op = "init" /\ SavedVersions # {}) =>
        LET k == CHOOSE v \in SavedVersions : \A u \in SavedVersions : u <= v
        IN  model_version = k /\ <<model>> = modelFiles[k]

\* C9: after save_model stored version v, load_specific_version(v) restores
\* the weights and the scaler parameters that were saved.
C9_RoundTrip ==
    (ret.op = "load_specific_version" /\ ret.exc = "none") =>
        /\ saved[ret.arg] # <<>>
        /\ [model |-> model, scaler |-> scaler] = saved[ret.arg][1]

\* Whether an online_update on frame d with fit outcome fitOk completes.
OnlineCompletes(d, fitOk) ==
    /\ FeatureColumns \subseteq d.columns
    /\ Len(d.close) > SeqLen
    /\ fitOk

\* C10: online_update never changes model_version and never writes an
\* artifact; it never raises; it returns the metrics of one pass when the
\* pass completes and {None, None} on any failure, zero examples included.
C10_OnlineUpdateFrame ==
    [][ret'.op = "online_update" =>
          /\ UNCHANGED <<model_version, modelFiles, scalerFiles>>
          /\ ret'.exc = "none"
          /\ IF OnlineCompletes(ret'.df, ret'.arg)
             THEN ret'.metrics = "metrics" /\ model' # model
             ELSE ret'.metrics = "None" /\ model' = model]_vars

\* online_update failed on zero examples while version 1 was in storage.
C10_Witness ==
    /\ ret.op = "online_update"
    /\ ret.metrics = "None"
    /\ Len(ret.df.close) = SeqLen
    /\ model_version = 1
    /\ modelFiles[1] # NoFile

\* C11: train on a series that has every feature column but yields zero
\* windowed examples raises an error to its caller (no metrics are
\* returned); no fit is run, no artifact is written and model_version is
\* unchanged, with save_model=True as with save_model=False.
C11_TrainNoExamples ==
    [][(/\ ret'.op = "train"
        /\ FeatureColumns \subseteq ret'.df.columns
        /\ Len(ret'.df.close) <= SeqLen) =>
          /\ ret'.exc = "ValueError"
          /\ ret'.metrics = "none"
          /\ UNCHANGED <<model, nextW, model_version, modelFiles, scalerFiles>>]_vars

\* train(save_model=True) on a series of sequence_length rows raised while
\* version 1 was in storage.
C11_Witness ==
    /\ ret.op = "train"
    /\ ret.arg
    /\ FeatureColumns \subseteq ret.df.columns
    /\ Len(ret.df.close) = SeqLen
    /\ ret.exc = "ValueError"
    /\ model_version = 1
    /\ modelFiles[1] # NoFile

\* C12: a predict that runs while online_update runs on the other thread
\* works on a consistent snapshot: the scaler parameters its transform reads
\* are those of its own fit, never ones written by the update in progress.
C12_PredictSnapshot ==
    (/\ pc["signal_thread"] = "model"
     /\ NumWindows(local["signal_thread"].df.close) > 0) =>
        /\ local["signal_thread"].used = ScalerFit(local["signal_thread"].df.close)
        /\ local["signal_thread"].scaled = ScaledFeatures(local["signal_thread"].df.close)

SignalTypes == {"STRONG_BUY", "BUY", "SELL", "STRONG_SELL", "NEUTRAL", "HOLD"}

\* An AI prediction with its confidence and its probabilities in [0, 1].
WellFormed(ai_prediction) ==
    /\ {"confidence", "probabilities"} \subseteq DOMAIN ai_prediction
    /\ ai_prediction.confidence \in 0..ScoreOne
    /\ \A k \in {"buy", "sell", "hold"} : ai_prediction.probabilities[k] \in 0..ScoreOne

\* C13: every record generate_signal returns for a well-formed AI
\* prediction has its confidence and its four metrics in [0, 1] and its
\* signal_type in the fixed enum.
C13_SignalRanges ==
    (ret.op = "generate_signal" /\ WellFormed(ret.args.ai_prediction)) =>
        /\ ret.out.confidence \in 0..ScoreOne
        /\ \A m \in DOMAIN ret.out.metrics : ret.out.metrics[m] \in 0..ScoreOne
        /\ DOMAIN ret.out.metrics =
               {"ai_score", "trend_score", "momentum_score", "support_resistance_score"}
        /\ ret.out.signal_type \in SignalTypes

\* A non-neutral signal whose AI score was boosted and capped at 1.
C13_Witness ==
    /\ ret.op = "generate_signal"
    /\ WellFormed(ret.args.ai_prediction)
    /\ ret.args.ai_prediction.confidence = 950000
    /\ ret.out.signal_type = "BUY"
    /\ ret.out.metrics.ai_score = ScoreOne

\* C14: _determine_signal_type returns NEUTRAL iff overall_score < 0.7;
\* exactly 0.7 is not NEUTRAL and 0.699999 is.
C14_NeutralBelowThreshold ==
    ret.op = "_determine_signal_type" =>
        /\ ret.out = "NEUTRAL" <=> ret.args < MinConfidence
        /\ ret.args = 700000 => ret.out # "NEUTRAL"
        /\ ret.args = 699999 => ret.out = "NEUTRAL"

\* The score exactly at the threshold was classified BUY.
C14_Witness ==
    /\ ret.op = "_determine_signal_type"
    /\ ret.args = MinConfidence
    /\ ret.out = "BUY"

\* The latest row of the uptrend scenario.
Uptrend(df) ==
    /\ df.rows > 0
    /\ df.columns = TechColumns
    /\ df.latest.sma_20 > df.latest.sma_50
    /\ df.latest.adx = 30
    /\ df.latest.rsi = 55
    /\ df.latest.macd_line > df.latest.macd_signal

\* C15: for an uptrending series whose latest row has sma_20 > sma_50,
\* adx = 30, rsi = 55 and macd_line > macd_signal, generate_signal
\* classifies BUY or STRONG_BUY with confidence >= 0.7 and a stop_loss
\* strictly below entry_price.
C15_UptrendBuy ==
    (/\ ret.op = "generate_signal"
     /\ "close" \in DOMAIN ret.args.price_data
     /\ Uptrend(ret.args.technical_data)) =>
        /\ ret.out.signal_type \in {"BUY", "STRONG_BUY"}
        /\ ret.out.confidence >= MinConfidence
        /\ ret.out.stop_loss[1] < ret.out.entry_price[1]

\* Flat trend, flat momentum and no levels.
Flat(a) ==
    /\ a.technical_data.rows > 0
    /\ a.technical_data.latest.sma_20 = a.technical_data.latest.sma_50
    /\ a.technical_data.latest.rsi = 55
    /\ a.technical_data.latest.macd_line = a.technical_data.latest.macd_signal
    /\ a.technical_data.latest.stoch_k = a.technical_data.latest.stoch_d
    /\ a.support_resistance = [support |-> <<>>, resistance |-> <<>>]

\* C16: the AI prediction HOLD with confidence 0.9 and probabilities
\* 0.05 / 0.05 / 0.9, combined with flat trend, flat momentum and no levels,
\* is classified NEUTRAL.
C16_HoldIsNeutral ==
    (/\ ret.op = "generate_signal"
     /\ ret.args.ai_prediction = HoldPrediction
     /\ Flat(ret.args)) =>
        ret.out.signal_type = "NEUTRAL"

\* The HOLD scenario was classified, with a price to work from.
C16_Witness ==
    /\ ret.op = "generate_signal"
    /\ ret.args.ai_prediction = HoldPrediction
    /\ Flat(ret.args)
    /\ "close" \in DOMAIN ret.args.price_data
    /\ EvaluateAiSignal(ret.args.ai_prediction) = 900000
    /\ ret.out = CreateNeutralSignal

\* C17: with the other three scores held fixed, a greater ai_score never
\* gives a smaller overall score.
C17_MonotoneInAiScore ==
    ret.op = "_calculate_overall_score" =>
        \A ai \in ScoreGrid :
            LET other == CalculateOverallScore([ret.args EXCEPT !.ai_score = ai])
            IN  /\ ai >= ret.args.ai_score => other >= ret.out
                /\ ai <= ret.args.ai_score => other <= ret.out

\* A greater ai_score gave a strictly greater overall score.
C17_Witness ==
    /\ ret.op = "_calculate_overall_score"
    /\ ret.args.ai_score = 500000
    /\ ret.out > CalculateOverallScore([ret.args EXCEPT !.ai_score = 250000])
    /\ ret.out < CalculateOverallScore([ret.args EXCEPT !.ai_score = 750000])

\* C18: a NEUTRAL record from generate_signal has entry_price, stop_loss,
\* take_profit and risk_reward_ratio all None and confidence 0.0; any other
\* record has the overall score as its confidence, which is >= 0.7.
C18_NeutralHasNoPlan ==
    ret.op = "generate_signal" =>
        IF ret.out.signal_type = "NEUTRAL"
        THEN /\ ret.out.entry_price = None
             /\ ret.out.stop_loss = None
             /\ ret.out.take_profit = None
             /\ ret.out.risk_reward_ratio = None
             /\ ret.out.confidence = 0
        ELSE /\ ret.out.confidence = CalculateOverallScore(ret.out.metrics)
             /\ ret.out.confidence >= MinConfidence

\* A positive score below the threshold was reported as the neutral record.
C18_Witness ==
    /\ ret.op = "generate_signal"
    /\ "close" \in DOMAIN ret.args.price_data
    /\ CalculateOverallScore(SignalMetrics(ret.args)) \in 1..(MinConfidence - 1)
    /\ ret.out = CreateNeutralSignal

\* The ATR _calculate_trade_levels works with.
AtrOf(a) ==
    IF "atr" \in a.technical_data.columns THEN a.technical_data.latest.atr
    ELSE a.current_price \div 1000

StrictlyAscending(q) == \A i \in 1..(Len(q) - 1) : q[i] < q[i + 1]

\* C20: the lists detect_support_resistance returns are each sorted
\* ascending without duplicates, every support level is strictly below the
\* latest close and every resistance level strictly above it, so a level
\* equal to the close is in neither; on an internal failure both are empty.
C20_LevelsPartitioned ==
    ret.op = "detect_support_resistance" =>
        /\ StrictlyAscending(ret.out.support)
        /\ StrictlyAscending(ret.out.resistance)
        /\ \A l \in Elems(ret.out.support) : l < ret.args.df.close
        /\ \A l \in Elems(ret.out.resistance) : l > ret.args.df.close
        /\ ret.args.df.close \notin Elems(ret.out.support) \cup Elems(ret.out.resistance)
        /\ (~({"high", "low", "close"} \subseteq ret.args.df.columns)
              \/ Len(ret.args.df.high) = 0) =>
               ret.out = [support |-> <<>>, resistance |-> <<>>]

\* A level equal to the latest close was found, twice, and is in neither
\* list, while levels on both sides of it are.
C20_Witness ==
    /\ ret.op = "detect_support_resistance"
    /\ {"high", "low", "close"} \subseteq ret.args.df.columns
    /\ LET levels == PotentialLevels(ret.args.df, ret.args.window, NumTouches)
       IN  Cardinality({i \in 1..Len(levels) : levels[i] = ret.args.df.close}) >= 2
    /\ ret.out.support # <<>>
    /\ ret.out.resistance # <<>>

\* C29: after any sequence of train, save_model, load_specific_version and
\* online_update calls, failed ones included, model_version is 0 or names a
\* version whose weights file and scaler file both exist; a save_model that
\* fails leaves model_version as it was.
C29_VersionNamesArtifacts ==
    /\ [](model_version = 0
            \/ (modelFiles[model_version] # NoFile /\ scalerFiles[model_version] # NoFile))
    /\ [][(ret'.op \in {"save_model", "train"} /\ ret'.exc # "none") =>
              model_version' = model_version]_vars

\* The bars of the whole series x within 0.2 % of the level.
TouchesAcrossSeries(x, level) ==
    Cardinality({j \in 0..(Len(x) - 1) : 1000 * Abs(At(x, j) - level) <= 2 * level})

\* The candidates of the series x (a bar equal to the centred rolling
\* extreme) that at least num_touches bars of the whole series touch.
ConfirmedAcrossSeries(x, window, num_touches, Extreme(_)) ==
    {At(x, i) : i \in {k \in window..(Len(x) - window - 1) :
                          /\ Extreme(RollingWindow(x, k, window)) = At(x, k)
                          /\ TouchesAcrossSeries(x, At(x, k)) >= num_touches}}

\* C23: detect_support_resistance confirms a candidate level exactly when
\* at least num_touches bars of the full series lie within 0.2 % of it: the
\* levels returned (a level equal to the latest close is in neither list)
\* are the candidates with that many touches counted over every bar.
C23_TouchesAcrossSeries ==
    (ret.op = "detect_support_resistance"
        /\ {"high", "low", "close"} \subseteq ret.args.df.columns) =>
        LET df == ret.args.df
        IN  Elems(ret.out.support) \cup Elems(ret.out.resistance)
              = (ConfirmedAcrossSeries(df.high, ret.args.window, NumTouches, SetMax)
                   \cup ConfirmedAcrossSeries(df.low, ret.args.window, NumTouches, SetMin))
                \ {df.close}

\* Every indicator of the latest row reads bearish, the nearest level is a
\* resistance within 1 % and the classifier says SELL.
Bearish(a) ==
    /\ WellFormed(a.ai_prediction) /\ a.ai_prediction.signal = "SELL"
    /\ a.technical_data.rows > 0 /\ a.technical_data.columns = TechColumns
    /\ a.technical_data.latest.sma_20 < a.technical_data.latest.sma_50
    /\ a.technical_data.latest.rsi > 70
    /\ a.technical_data.latest.macd_line <= a.technical_data.latest.macd_signal
    /\ a.technical_data.latest.stoch_k <= a.technical_data.latest.stoch_d
    /\ a.support_resistance.support = <<>>
    /\ a.support_resistance.resistance # <<>>

\* C24: generate_signal never returns SELL or STRONG_SELL, and neither does
\* _determine_signal_type for a score between 0 and 1: the signal type is
\* NEUTRAL, BUY or STRONG_BUY, bearish inputs with a SELL prediction
\* included.
C24_NeverSell ==
    /\ ret.op = "generate_signal" =>
           ret.out.signal_type \in {"NEUTRAL", "BUY", "STRONG_BUY"}
    /\ ret.op = "_determine_signal_type" =>
           ret.out \in {"NEUTRAL", "BUY", "STRONG_BUY"}

\* A bearish input with a SELL prediction was fused into a BUY signal.
C24_Witness ==
    /\ ret.op = "generate_signal"
    /\ "close" \in DOMAIN ret.args.price_data
    /\ Bearish(ret.args)
    /\ ret.out.signal_type = "BUY"

\* The largest overall score, in millionths: 0.40 * 1 + 0.25 * 0.45
\* + 0.20 * 0.8 + 0.15 * 0.5.
MaxOverallScore == (40 * ScoreOne + 25 * 450000 + 20 * 800000 + 15 * 500000) \div 100

\* C25: the overall score of generate_signal is at most 0.7475 for every
\* input (trend at most 0.45, momentum at most 0.8, support/resistance at
\* most 0.5, AI at most 1), so no signal is of the STRONG tier and no
\* signal has a confidence of 0.8 or more.
C25_OverallScoreBounded ==
    ret.op = "generate_signal" =>
        /\ ret.out.confidence <= MaxOverallScore
        /\ ret.out.confidence < StrongScore
        /\ ret.out.signal_type \notin {"STRONG_BUY", "STRONG_SELL"}
        /\ "close" \in DOMAIN ret.args.price_data =>
               /\ ret.out.metrics.ai_score <= ScoreOne
               /\ ret.out.metrics.trend_score <= 450000
               /\ ret.out.metrics.momentum_score <= 800000
               /\ ret.out.metrics.support_resistance_score <= 500000
               /\ ret.out.confidence = CalculateOverallScore(ret.out.metrics)

\* A signal whose overall score is the largest one.
C25_Witness ==
    /\ ret.op = "generate_signal"
    /\ ret.out.confidence = MaxOverallScore
    /\ ret.out.signal_type = "BUY"

\* The routines that raise in a calculate_all call.
RaisingIndicators(a) ==
    {k \in DOMAIN Indicators : IndicatorRaises(a.df, Indicators[k], a.raises)}

\* C21: a failure inside one indicator routine of calculate_all does not
\* abort the others: the returned frame has every column of every routine
\* that did not fail and no column of a routine that failed, no exception
\* reaches the caller, and the caller's frame is as it was.
C21_IndicatorIsolation ==
    ret.op = "calculate_all" =>
        /\ \A k \in DOMAIN Indicators :
               IF k \in RaisingIndicators(ret.args)
               THEN Indicators[k].adds \cap ret.out.returned = {}
               ELSE Indicators[k].adds \subseteq ret.out.returned
        /\ ret.args.df \subseteq ret.out.returned
        /\ ret.out.exc = "none"
        /\ ret.out.input = ret.args.df

\* tick_volume is missing and the library raises nowhere: add_vwap alone
\* failed, and the stochastic columns, added just before it, are there.
C21_Witness ==
    /\ ret.op = "calculate_all"
    /\ ret.args.df = CandleColumns \ {"tick_volume"}
    /\ ret.args.raises = {}
    /\ "vwap" \notin ret.out.returned
    /\ {"sma_9", "rsi", "adx", "stoch_k", "stoch_d"} \subseteq ret.out.returned

\* C30: after MT5Connector is constructed, connected is true exactly when
\* _initialize_mt5 succeeded (initialize, login and the real-account check
\* all passed), and __del__ shuts the session down exactly then.
C30_ConnectedIffInitialized ==
    ret.op = "MT5Connector" =>
        /\ ret.out.connected <=> ret.out.initialized
        /\ ret.out.shutdown <=> ret.out.initialized

\* C22: the hand-off queues are bounded: market_data_queue and
\* signal_queue never hold more than a fixed capacity, here any capacity
\* below the number of items the producer puts in a behaviour, however
\* much faster the producer runs than its consumers.
C22_QueuesBounded ==
    /\ Len(market_data_queue) < MaxItems
    /\ Len(signal_queue) < MaxItems

\* What one pass of trade_execution_worker may do with the signal at the
\* head of its queue.
TradeStep ==
    LET signal == Head(signal_queue) IN
    /\ signal_queue' = Tail(signal_queue)
    /\ consumed' = Append(consumed, signal)
    /\ \/ orders' = orders
       \/ /\ ret'.args.auto_trading
          /\ signal.confidence >= TradeConfidence
          /\ signal.signal_type # "NEUTRAL"
          /\ \E order_type \in {"BUY", "SELL"} :
                /\ orders' = Append(orders, OrderRequest(signal, order_type))
                /\ order_type = "BUY" <=> signal.signal_type \in {"BUY", "STRONG_BUY"}
                /\ order_type = "SELL" <=> signal.signal_type \in {"SELL", "STRONG_SELL"}

\* C26: trade_execution_worker calls place_order only for a dequeued
\* signal with confidence >= 0.8 while auto-trading is enabled, with order
\* type BUY for BUY and STRONG_BUY and SELL for SELL and STRONG_SELL, never
\* for a NEUTRAL signal; every signal is taken from the queue exactly once,
\* traded or not.
C26_OrdersOnlyForStrongSignals ==
    [][ret'.op = "trade_execution_worker" => TradeStep]_vars

\* Two signals were taken with auto-trading enabled: a STRONG_SELL at the
\* threshold, which was ordered as a SELL, and before it a BUY just below
\* the threshold, which was not ordered.
C26_Witness ==
    /\ ret.op = "trade_execution_worker"
    /\ ret.args.auto_trading
    /\ Len(consumed) = 2
    /\ consumed[1].signal_type = "BUY" /\ consumed[1].confidence = TradeConfidence - 1
    /\ consumed[2].signal_type = "STRONG_SELL" /\ consumed[2].confidence = TradeConfidence
    /\ signal_queue = <<>>
    /\ Len(orders) = 1 /\ orders[1].order_type = "SELL"

\* C27: every item signal_generation_worker takes while AI is enabled
\* leads to exactly one signal put on signal_queue by the end of that
\* pass, and the signal has every key save_signal reads.
C27_SignalHandedOver ==
    [][(ret'.op = "signal_generation_worker" /\ ret'.args.ai_enabled) =>
           /\ SaveSignalKeys \subseteq SignalKeys(ret'.out.signal[1])
           /\ signal_queue' = Append(signal_queue, ret'.out.signal[1])]_vars

\* The items still on market_data_queue, by number.
Waiting == {market_data_queue[k].id : k \in DOMAIN market_data_queue}

\* C28: every item put on market_data_queue is processed by both
\* consumers: no item is seen by only one of them, so an item that one
\* consumer has taken and the other has not is still there for the other
\* to take.
C28_SeenByBothConsumers ==
    \A id \in 1..produced :
        /\ (id \in seen.signal_generation_worker /\ id \notin seen.model_update_worker)
               => id \in Waiting
        /\ (id \in seen.model_update_worker /\ id \notin seen.signal_generation_worker)
               => id \in Waiting

====
